---- MODULE Spec2Model ----
(***************************************************************************)
(* Model of experimentPage.group-row-utils.ts: the grouping key codec, the *)
(* value aggregator, the run grouping engine with its render metadata      *)
(* builder, and the synthetic metric history aggregator.                   *)
(*                                                                         *)
(* JavaScript strings are sequences of one-character strings, so that      *)
(* joining, regular-expression matching and property-key ordering are      *)
(* computed character by character.  JavaScript numbers are fractions      *)
(* [n, d]: d > 0 is the finite number n/d (reduced), d = 0 is NaN (n = 0), *)
(* +Infinity (n = 1) or -Infinity (n = -1).                                *)
(***************************************************************************)
EXTENDS Integers, Sequences, FiniteSets, TLC

VARIABLES
    pc,                 \* the call that is pending, or "done"
    cfgIn,              \* arguments of createRunsGroupByKey (NoArgs: no call)
    groupByKey,         \* the serialized key: createRunsGroupByKey's result, parseRunsGroupByKey's argument
    parsed,             \* parseRunsGroupByKey's result
    valuesByRun,        \* aggregateValues' argument
    aggregateFunction,  \* aggregateValues' / the grouping pass's aggregate function
    aggregated,         \* aggregateValues' outcome
    runData,            \* the grouping pass's run list
    groupsExpanded,     \* the caller's expand/collapse map: group id -> boolean
    groupByMode,        \* groupByConfig.mode of the grouping pass
    groupByData,        \* groupByConfig.groupByData of the grouping pass
    rendered,           \* getGroupedRowRenderMetadata's outcome
    stepNumbers,        \* createAggregatedMetricHistory's arguments
    history,
    synthetic           \* createAggregatedMetricHistory's result

vars == <<pc, cfgIn, groupByKey, parsed, valuesByRun, aggregateFunction, aggregated,
          runData, groupsExpanded, groupByMode, groupByData, rendered,
          stepNumbers, history, synthetic>>

codecVars == <<cfgIn, groupByKey, parsed>>
aggVars == <<valuesByRun, aggregated>>
groupVars == <<runData, groupsExpanded, groupByMode, groupByData, rendered>>
histVars == <<stepNumbers, history, synthetic>>

(***************************************************************************)
(* Bounds of the explored inputs.                                          *)
(***************************************************************************)
MaxTokenPieces == 6
MaxAggRuns == 2
MaxEntities == 2
MaxRuns == 3
MaxHistory == 2

(***************************************************************************)
(* JavaScript values.                                                      *)
(***************************************************************************)
Undefined == <<"<undefined>">>
Null == [null |-> TRUE]
Pending == [pending |-> TRUE]
NoArgs == [noargs |-> TRUE]
EmptyString == <<>>
Dot == <<".">>

Lower == {"a", "b", "c", "d", "e", "f", "g", "h", "i", "j", "k", "l", "m",
          "n", "o", "p", "q", "r", "s", "t", "u", "v", "w", "x", "y", "z"}
Digits == {"0", "1", "2", "3", "4", "5", "6", "7", "8", "9"}
LineTerminators == {"\n", "\r"}

DigitValue(c) ==
    CASE c = "0" -> 0 [] c = "1" -> 1 [] c = "2" -> 2 [] c = "3" -> 3 [] c = "4" -> 4
      [] c = "5" -> 5 [] c = "6" -> 6 [] c = "7" -> 7 [] c = "8" -> 8 [] c = "9" -> 9

\* A string or undefined used as a condition: undefined and '' are falsy.
TruthyString(s) == s # Undefined /\ s # EmptyString

RECURSIVE Join(_, _)
Join(parts, sep) ==
    IF Len(parts) = 0 THEN EmptyString
    ELSE IF Len(parts) = 1 THEN parts[1]
    ELSE parts[1] \o sep \o Join(Tail(parts), sep)

RECURSIVE Gcd(_, _)
Gcd(a, b) == IF b = 0 THEN a ELSE Gcd(b, a % b)
Abs(x) == IF x < 0 THEN -x ELSE x

NaN == [n |-> 0, d |-> 0]
Infinity == [n |-> 1, d |-> 0]
NegInfinity == [n |-> -1, d |-> 0]
Frac(n, d) == LET g == Gcd(Abs(n), d) IN [n |-> n \div g, d |-> d \div g]
Num(i) == [n |-> i, d |-> 1]
isNaN(x) == x = NaN
IsFinite(x) == x.d > 0

\* a + b on numbers (no infinities arise where it is used with non-finite operands
\* other than NaN, which propagates).
Plus(a, b) ==
    IF isNaN(a) \/ isNaN(b) THEN NaN
    ELSE IF ~IsFinite(a) THEN (IF ~IsFinite(b) /\ b # a THEN NaN ELSE a)
    ELSE IF ~IsFinite(b) THEN b
    ELSE Frac(a.n * b.d + b.n * a.d, a.d * b.d)

\* a / k for a count k >= 0: 0/0 is NaN.
DivideByCount(a, k) ==
    IF isNaN(a) THEN NaN
    ELSE IF ~IsFinite(a) THEN a
    ELSE IF k = 0 THEN (IF a.n = 0 THEN NaN ELSE IF a.n > 0 THEN Infinity ELSE NegInfinity)
    ELSE Frac(a.n, a.d * k)

Less(a, b) ==
    IF a = b THEN FALSE
    ELSE IF a = NegInfinity \/ b = Infinity THEN TRUE
    ELSE IF a = Infinity \/ b = NegInfinity THEN FALSE
    ELSE a.n * b.d < b.n * a.d

\* Math.min / Math.max of two numbers: NaN if either is NaN.
MathMin2(a, b) == IF isNaN(a) \/ isNaN(b) THEN NaN ELSE IF Less(b, a) THEN b ELSE a
MathMax2(a, b) == IF isNaN(a) \/ isNaN(b) THEN NaN ELSE IF Less(a, b) THEN b ELSE a

\* Math.round: the nearest integer, halves rounded up; NaN and infinities unchanged.
MathRound(a) ==
    IF ~IsFinite(a) THEN a ELSE Num((2 * a.n + a.d) \div (2 * a.d))

RECURSIVE DigitsValue(_)
DigitsValue(s) ==
    IF Len(s) = 0 THEN 0
    ELSE 10 * DigitsValue(SubSeq(s, 1, Len(s) - 1)) + DigitValue(s[Len(s)])

RECURSIVE Pow10(_)
Pow10(k) == IF k = 0 THEN 1 ELSE 10 * Pow10(k - 1)

\* Number(s) of a string over letters, digits and dots: '' is 0, an unsigned decimal
\* literal is its value, anything else NaN.
StringToNumber(s) ==
    LET dots == {i \in 1..Len(s) : s[i] = "."}
        digs == {i \in 1..Len(s) : s[i] \in Digits}
    IN  IF Len(s) = 0 THEN Num(0)
        ELSE IF dots \cup digs # 1..Len(s) \/ digs = {} \/ Cardinality(dots) > 1 THEN NaN
        ELSE IF dots = {} THEN Num(DigitsValue(s))
        ELSE LET p == CHOOSE i \in dots : TRUE
                 whole == SubSeq(s, 1, p - 1) \o SubSeq(s, p + 1, Len(s))
             IN  Frac(DigitsValue(whole), Pow10(Len(s) - p))

\* An entity's value is a number [t "num"] or a string [t "str"]; Number(value).
NumV(i) == [t |-> "num", v |-> Num(i)]
StrV(s) == [t |-> "str", v |-> s]
Number(value) == IF value.t = "num" THEN value.v ELSE StringToNumber(value.v)

(***************************************************************************)
(* The enums of experimentPage.row-types, as lowercase words.              *)
(***************************************************************************)
Tag == <<"t", "a", "g", "s">>
Param == <<"p", "a", "r", "a", "m", "s">>
Dataset == <<"d", "a", "t", "a", "s", "e", "t">>
RunGroupingMode == {Tag, Param, Dataset}

Min == <<"m", "i", "n">>
Max == <<"m", "a", "x">>
Average == <<"a", "v", "e", "r", "a", "g", "e">>
RunGroupingAggregateFunction == {Min, Max, Average}

(***************************************************************************)
(* GroupKeyCodec.                                                          *)
(***************************************************************************)
createRunsGroupByKey(mode, data, aggFn) ==
    IF TruthyString(mode) THEN Join(<<mode, aggFn, data>>, Dot) ELSE EmptyString

createGroupId(mode, groupByName, groupByValue) ==
    IF TruthyString(groupByValue)
    THEN mode \o Dot \o groupByName \o Dot \o groupByValue
    ELSE mode \o Dot \o groupByName

\* The last index of the longest run of [a-z] that starts at i (i - 1: no such run).
RECURSIVE LowerRunEnd(_, _)
LowerRunEnd(s, i) ==
    IF i <= Len(s) /\ s[i] \in Lower THEN LowerRunEnd(s, i + 1) ELSE i - 1

\* The last index of the longest run of non-line-terminators that starts at i.
RECURSIVE DotRunEnd(_, _)
DotRunEnd(s, i) ==
    IF i <= Len(s) /\ s[i] \notin LineTerminators THEN DotRunEnd(s, i + 1) ELSE i - 1

\* /([a-z]+)\.([a-z]+)\.(.+)/ tried at start index i: the captured groups, or
\* <<>>.  A greedy [a-z]+ that must be followed by a dot can only end at the end of
\* its run of letters, so there is one candidate per start.
MatchAt(s, i) ==
    LET e1 == LowerRunEnd(s, i)
        e2 == LowerRunEnd(s, e1 + 2)
        e3 == DotRunEnd(s, e2 + 2)
    IN  IF /\ e1 >= i
           /\ e1 + 1 <= Len(s) /\ s[e1 + 1] = "."
           /\ e2 >= e1 + 2
           /\ e2 + 1 <= Len(s) /\ s[e2 + 1] = "."
           /\ e3 >= e2 + 2
        THEN <<SubSeq(s, i, e1), SubSeq(s, e1 + 2, e2), SubSeq(s, e2 + 2, e3)>>
        ELSE <<>>

\* String.prototype.match without the g flag: the leftmost match, unanchored.
RegexMatch(s) ==
    LET starts == {i \in 1..Len(s) : MatchAt(s, i) # <<>>}
    IN  IF starts = {} THEN <<>>
        ELSE MatchAt(s, CHOOSE i \in starts : \A j \in starts : i <= j)

parseRunsGroupByKey(key) ==
    IF ~TruthyString(key) THEN Null
    ELSE LET m == RegexMatch(key)
         IN  IF m = <<>> THEN Null
             ELSE IF m[1] \notin RunGroupingMode \/ m[2] \notin RunGroupingAggregateFunction
                  THEN Null
                  ELSE [mode |-> m[1], aggregateFunction |-> m[2], groupByData |-> m[3]]

(***************************************************************************)
(* Plain JavaScript objects used as dictionaries ({} literals): a sequence *)
(* of own properties [key, value] in creation order, with Object.prototype *)
(* behind it.                                                              *)
(***************************************************************************)
constructor == <<"c", "o", "n", "s", "t", "r", "u", "c", "t", "o", "r">>
valueOf == <<"v", "a", "l", "u", "e", "O", "f">>
\* Function-valued members that every {} inherits (a representative part).
ObjectPrototypeMembers == {constructor, valueOf}

EmptyObject == <<>>
HasOwn(obj, k) == \E i \in 1..Len(obj) : obj[i].key = k
OwnValue(obj, k) == obj[CHOOSE i \in 1..Len(obj) : obj[i].key = k].value
\* obj[k] used as a condition: own values here are always objects or arrays
\* (truthy), an inherited member is a function (truthy), otherwise undefined.
TruthyProperty(obj, k) == HasOwn(obj, k) \/ k \in ObjectPrototypeMembers
\* obj[k] = v
SetProperty(obj, k, v) ==
    IF HasOwn(obj, k)
    THEN [i \in 1..Len(obj) |-> IF obj[i].key = k THEN [key |-> k, value |-> v] ELSE obj[i]]
    ELSE Append(obj, [key |-> k, value |-> v])

\* Canonical decimal strings compared as numbers: shorter is smaller, equal lengths
\* compare digit by digit.
DecimalLess(a, b) ==
    \/ Len(a) < Len(b)
    \/ /\ Len(a) = Len(b)
       /\ \E i \in 1..Len(a) :
            /\ DigitValue(a[i]) < DigitValue(b[i])
            /\ \A j \in 1..(i - 1) : a[j] = b[j]

MaxArrayIndexBound == <<"4", "2", "9", "4", "9", "6", "7", "2", "9", "5">>

\* An array index: a canonical decimal string below 2^32 - 1.
IsArrayIndex(key) ==
    /\ Len(key) >= 1
    /\ \A i \in 1..Len(key) : key[i] \in Digits
    /\ (Len(key) = 1 \/ key[1] # "0")
    /\ DecimalLess(key, MaxArrayIndexBound)

RECURSIVE SortedIndexKeys(_)
SortedIndexKeys(ks) ==
    IF ks = {} THEN <<>>
    ELSE LET least == CHOOSE x \in ks : \A o \in ks : ~DecimalLess(o, x)
         IN  <<least>> \o SortedIndexKeys(ks \ {least})

\* Object.keys / lodash keys, values, entries: array indices in ascending numeric
\* order first, then the other string keys in creation order.
OwnKeys(obj) ==
    LET all == [i \in 1..Len(obj) |-> obj[i].key]
        IsOther(key) == ~IsArrayIndex(key)
    IN  SortedIndexKeys({all[i] : i \in {j \in 1..Len(obj) : IsArrayIndex(all[j])}})
          \o SelectSeq(all, IsOther)

(***************************************************************************)
(* ValueAggregator.                                                        *)
(***************************************************************************)
RECURSIVE Flatten(_)
Flatten(lists) == IF Len(lists) = 0 THEN <<>> ELSE lists[1] \o Flatten(Tail(lists))

\* One iteration of the Min/Max reducer's forEach body.
MinMaxStep(acc, metric, aggFn) ==
    IF ~TruthyProperty(acc, metric.key)
    THEN SetProperty(acc, metric.key, [key |-> metric.key, value |-> Number(metric.value)])
    ELSE LET old == IF HasOwn(acc, metric.key) THEN OwnValue(acc, metric.key).value
                    ELSE NaN  \* Number(undefined): an inherited function has no .value
             new == IF aggFn = Min THEN MathMin2(old, Number(metric.value))
                    ELSE MathMax2(old, Number(metric.value))
         IN  SetProperty(acc, metric.key, [key |-> metric.key, value |-> new])

RECURSIVE MinMaxFold(_, _, _)
MinMaxFold(acc, metrics, aggFn) ==
    IF Len(metrics) = 0 THEN acc
    ELSE MinMaxFold(MinMaxStep(acc, metrics[1], aggFn), Tail(metrics), aggFn)

\* One iteration of the Average collector's forEach body; st.threw records the
\* TypeError of calling push on a value that has none.
AverageStep(st, metric) ==
    IF st.threw THEN st
    ELSE LET acc1 == IF ~TruthyProperty(st.acc, metric.key)
                     THEN SetProperty(st.acc, metric.key, <<>>)
                     ELSE st.acc
         IN  IF HasOwn(acc1, metric.key)
             THEN [threw |-> FALSE,
                   acc |-> SetProperty(acc1, metric.key,
                                       Append(OwnValue(acc1, metric.key), Number(metric.value)))]
             ELSE [threw |-> TRUE, acc |-> acc1]

RECURSIVE AverageFold(_, _)
AverageFold(st, metrics) ==
    IF Len(metrics) = 0 THEN st
    ELSE AverageFold(AverageStep(st, metrics[1]), Tail(metrics))

RECURSIVE Sum(_)
Sum(nums) == IF Len(nums) = 0 THEN Num(0) ELSE Plus(Sum(SubSeq(nums, 1, Len(nums) - 1)), nums[Len(nums)])

average(nums) == DivideByCount(Sum(nums), Len(nums))

NotNaNEntity(e) == ~isNaN(e.value)

Threw == [threw |-> TRUE, entities |-> <<>>]

aggregateValues(byRun, aggFn) ==
    IF aggFn \in {Min, Max}
    THEN LET valuesMap == MinMaxFold(EmptyObject, Flatten(byRun), aggFn)
             ks == OwnKeys(valuesMap)
         IN  [threw |-> FALSE,
              entities |-> SelectSeq([i \in 1..Len(ks) |-> OwnValue(valuesMap, ks[i])],
                                     NotNaNEntity)]
    ELSE IF aggFn = Average
    THEN LET st == AverageFold([threw |-> FALSE, acc |-> EmptyObject], Flatten(byRun))
             ks == OwnKeys(st.acc)
         IN  IF st.threw THEN Threw
             ELSE [threw |-> FALSE,
                   entities |-> SelectSeq([i \in 1..Len(ks) |->
                                             [key |-> ks[i],
                                              value |-> average(OwnValue(st.acc, ks[i]))]],
                                          NotNaNEntity)]
    ELSE Threw  \* Unsupported aggregate function

(***************************************************************************)
(* Runs.  A run is [runInfo |-> [run_uuid], tags, params, metrics,         *)
(* datasets]: tags a function from tag names to tag values, params and     *)
(* metrics sequences of [key, value], datasets a sequence of [name,        *)
(* digest].  Run objects are compared by identity in the code, so buckets  *)
(* hold positions in runData.                                              *)
(***************************************************************************)
EXPERIMENT_PARENT_ID_TAG ==
    <<"m", "l", "f", "l", "o", "w", ".", "p", "a", "r", "e", "n", "t", "R", "u", "n", "I", "d">>

RUN_GROUP_REMAINING_RUNS_SYMBOL == [t |-> "symbol", v |-> <<"REMAINING_RUNS_GROUP">>]

\* tags?.[name]?.value
TagValue(run, name) == IF name \in DOMAIN run.tags THEN run.tags[name] ELSE Undefined

\* params.find((param) => param.key === name)?.value
ParamValue(run, name) ==
    LET hits == {i \in 1..Len(run.params) : run.params[i].key = name}
    IN  IF hits = {} THEN Undefined
        ELSE run.params[CHOOSE i \in hits : \A j \in hits : i <= j].value.v

\* isUndefined(groupsExpanded[groupId]): the map has no entry for the group.
EntryIsUndefined(expandedMap, groupId) == groupId \notin DOMAIN expandedMap
\* groupsExpanded[groupId] === true
EntryIsTrue(expandedMap, groupId) == groupId \in DOMAIN expandedMap /\ expandedMap[groupId] = TRUE

(***************************************************************************)
(* Render Metadata Builder.                                                *)
(***************************************************************************)
RunRow(groupId, run, isRemainingRowsGroup) ==
    [isGroup |-> FALSE,
     index |-> 0,
     level |-> 0,
     runInfo |-> run.runInfo,
     belongsToGroup |-> ~isRemainingRowsGroup,
     isPinnable |-> ~TruthyString(TagValue(run, EXPERIMENT_PARENT_ID_TAG)),
     metrics |-> run.metrics,
     params |-> run.params,
     tags |-> run.tags,
     datasets |-> run.datasets,
     rowUuid |-> groupId \o Dot \o run.runInfo.run_uuid]

\* runs: the run list of the pass; members: the positions of the group's runs.
createGroupRenderMetadata(runs, groupId, expanded, members, aggFn, groupValue, isRemainingRowsGroup) ==
    LET runsInGroup == [i \in 1..Len(members) |-> runs[members[i]]]
        metricsByRun == [i \in 1..Len(runsInGroup) |-> runsInGroup[i].metrics]
        paramsByRun == [i \in 1..Len(runsInGroup) |-> runsInGroup[i].params]
        aggMetrics == aggregateValues(metricsByRun, aggFn)
        aggParams == aggregateValues(paramsByRun, aggFn)
        groupHeaderMetadata ==
            [isGroup |-> TRUE,
             groupId |-> groupId,
             expanderOpen |-> expanded,
             runUuids |-> [i \in 1..Len(runsInGroup) |-> runsInGroup[i].runInfo.run_uuid],
             aggregatedMetricEntities |-> aggMetrics.entities,
             aggregatedParamEntities |-> aggParams.entities,
             value |-> groupValue]
    IN  IF aggMetrics.threw \/ aggParams.threw
        THEN [threw |-> TRUE, records |-> <<>>]
        ELSE [threw |-> FALSE,
              records |-> <<groupHeaderMetadata>> \o
                  (IF expanded
                   THEN [i \in 1..Len(runsInGroup) |->
                           RunRow(groupId, runsInGroup[i], isRemainingRowsGroup)]
                   ELSE <<>>)]

\* result.push(...part): a throw anywhere aborts the pass.
PushAll(result, part) ==
    IF result.threw \/ part.threw THEN [threw |-> TRUE, records |-> <<>>]
    ELSE [threw |-> FALSE, records |-> result.records \o part.records]

EmptyResult == [threw |-> FALSE, records |-> <<>>]

\* The remaining-runs group of both grouping functions: emitted only when there are
\* ungrouped runs, collapsed unless explicitly expanded.
RemainingGroup(runs, expandedMap, aggFn, mode, groupByName, ungroupedRuns) ==
    IF Len(ungroupedRuns) > 0
    THEN LET groupId == createGroupId(mode, groupByName, Undefined)
             isGroupExpanded == EntryIsTrue(expandedMap, groupId)
         IN  createGroupRenderMetadata(runs, groupId, isGroupExpanded, ungroupedRuns, aggFn,
                                       RUN_GROUP_REMAINING_RUNS_SYMBOL, TRUE)
    ELSE EmptyResult

(***************************************************************************)
(* Grouping Engine: by tag or param value.                                 *)
(***************************************************************************)
\* The body of the for loop over runData, for the run at position i with value v.
BucketByValueStep(st, i, v) ==
    IF st.threw THEN st
    ELSE IF ~TruthyString(v) THEN [st EXCEPT !.ungroupedRuns = Append(@, i)]
    ELSE LET groups1 == IF ~TruthyProperty(st.groups, v)
                        THEN SetProperty(st.groups, v, <<>>)
                        ELSE st.groups
         IN  IF HasOwn(groups1, v)
             THEN [st EXCEPT !.groups = SetProperty(groups1, v, Append(OwnValue(groups1, v), i))]
             ELSE [st EXCEPT !.threw = TRUE]  \* push of an inherited member: TypeError

RECURSIVE BucketByValue(_, _, _)
BucketByValue(st, vals, i) ==
    IF i > Len(vals) THEN st
    ELSE BucketByValue(BucketByValueStep(st, i, vals[i]), vals, i + 1)

\* Faulty variant (sensitivity of the properties): a concrete group is expanded only when its entry is true, as the
\* remaining group is.
ConcreteGroupExpandedOnlyWhenTrue(expandedMap, groupId) == EntryIsTrue(expandedMap, groupId)

\* isUndefined(groupsExpanded[groupId]) || groupsExpanded[groupId] === true
ConcreteGroupExpanded(expandedMap, groupId) ==
    EntryIsUndefined(expandedMap, groupId) \/ EntryIsTrue(expandedMap, groupId)

RECURSIVE EmitValueGroups(_, _, _, _, _, _, _, _)
EmitValueGroups(result, groupKeys, k, groups, runs, expandedMap, aggFn, idPrefix) ==
    IF k > Len(groupKeys) THEN result
    ELSE LET tagValue == groupKeys[k]
             groupId == createGroupId(idPrefix[1], idPrefix[2], tagValue)
             isGroupExpanded == ConcreteGroupExpanded(expandedMap, groupId)
         IN  EmitValueGroups(
                 PushAll(result,
                         createGroupRenderMetadata(runs, groupId, isGroupExpanded,
                                                   OwnValue(groups, tagValue), aggFn,
                                                   [t |-> "str", v |-> tagValue], FALSE)),
                 groupKeys, k + 1, groups, runs, expandedMap, aggFn, idPrefix)

createRunsGroupedByValue(vals, runs, expandedMap, aggFn, mode, groupByName) ==
    LET st == BucketByValue([threw |-> FALSE, groups |-> EmptyObject, ungroupedRuns |-> <<>>],
                            vals, 1)
    IN  IF st.threw THEN [threw |-> TRUE, records |-> <<>>]
        ELSE PushAll(EmitValueGroups(EmptyResult, OwnKeys(st.groups), 1, st.groups, runs,
                                     expandedMap, aggFn, <<mode, groupByName>>),
                     RemainingGroup(runs, expandedMap, aggFn, mode, groupByName,
                                    st.ungroupedRuns))

(***************************************************************************)
(* Grouping Engine: by dataset.                                            *)
(***************************************************************************)
DatasetIdentifier(dataset) == dataset.name \o Dot \o dataset.digest

RECURSIVE RunDatasets(_)
\* runData.flatMap((r) => r.datasets.map(({dataset}) => ({dataset, identifier})))
RunDatasets(runs) ==
    IF Len(runs) = 0 THEN <<>>
    ELSE [i \in 1..Len(runs[1].datasets) |->
            [dataset |-> runs[1].datasets[i],
             identifier |-> DatasetIdentifier(runs[1].datasets[i])]]
         \o RunDatasets(Tail(runs))

\* uniqBy(all, 'identifier'): the first element of each identifier, in order.
uniqByIdentifier(all) ==
    LET firsts == {i \in 1..Len(all) : \A j \in 1..(i - 1) : all[j].identifier # all[i].identifier}
        IsFirst(i) == i \in firsts
        idx == SelectSeq([i \in 1..Len(all) |-> i], IsFirst)
    IN  [k \in 1..Len(idx) |-> all[idx[k]]]

getUniqueDatasets(runs) == uniqByIdentifier(RunDatasets(runs))

RECURSIVE KeyByIdentifier(_, _)
\* mapValues(keyBy(uniqueDatasets, 'identifier'), ({dataset}) => ({dataset, runs: []}))
KeyByIdentifier(obj, uniqueDatasets) ==
    IF Len(uniqueDatasets) = 0 THEN obj
    ELSE KeyByIdentifier(
             SetProperty(obj, uniqueDatasets[1].identifier,
                         [dataset |-> uniqueDatasets[1].dataset, runs |-> <<>>]),
             Tail(uniqueDatasets))

Includes(seq, x) == \E i \in 1..Len(seq) : seq[i] = x

RECURSIVE AddToDatasetGroups(_, _, _, _)
\* The inner loop over one run's dataset identifiers (run at position i).
AddToDatasetGroups(groups, ids, k, i) ==
    IF k > Len(ids) THEN groups
    ELSE LET id == ids[k]
             g == OwnValue(groups, id)
         IN  AddToDatasetGroups(
                 IF TruthyProperty(groups, id) /\ ~Includes(g.runs, i)
                 THEN SetProperty(groups, id, [g EXCEPT !.runs = Append(@, i)])
                 ELSE groups,
                 ids, k + 1, i)

RECURSIVE BucketByDataset(_, _, _)
BucketByDataset(st, runs, i) ==
    IF i > Len(runs) THEN st
    ELSE LET ids == [k \in 1..Len(runs[i].datasets) |-> DatasetIdentifier(runs[i].datasets[k])]
         IN  BucketByDataset(
                 [groups |-> AddToDatasetGroups(st.groups, ids, 1, i),
                  ungroupedRuns |-> IF Len(ids) = 0 THEN Append(st.ungroupedRuns, i)
                                    ELSE st.ungroupedRuns],
                 runs, i + 1)

RECURSIVE EmitDatasetGroups(_, _, _, _, _, _, _, _)
EmitDatasetGroups(result, groupKeys, k, groups, runs, expandedMap, aggFn, groupByName) ==
    IF k > Len(groupKeys) THEN result
    ELSE LET datasetDigest == groupKeys[k]
             groupId == createGroupId(Dataset, groupByName, datasetDigest)
             isGroupExpanded == ConcreteGroupExpanded(expandedMap, groupId)
         IN  EmitDatasetGroups(
                 PushAll(result,
                         createGroupRenderMetadata(runs, groupId, isGroupExpanded,
                                                   OwnValue(groups, datasetDigest).runs, aggFn,
                                                   [t |-> "dataset",
                                                    v |-> OwnValue(groups, datasetDigest).dataset],
                                                   FALSE)),
                 groupKeys, k + 1, groups, runs, expandedMap, aggFn, groupByName)

createRunsGroupedByDataset(runs, expandedMap, aggFn, groupByName) ==
    LET groups0 == KeyByIdentifier(EmptyObject, getUniqueDatasets(runs))
        st == BucketByDataset([groups |-> groups0, ungroupedRuns |-> <<>>], runs, 1)
    IN  PushAll(EmitDatasetGroups(EmptyResult, OwnKeys(st.groups), 1, st.groups, runs,
                                  expandedMap, aggFn, groupByName),
                RemainingGroup(runs, expandedMap, aggFn, Dataset, groupByName,
                               st.ungroupedRuns))

(***************************************************************************)
(* The grouping pass.  status: "returned" with the records, "threw", or    *)
(* "null" for an unknown mode.                                             *)
(***************************************************************************)
Outcome(r) ==
    IF r.threw THEN [status |-> "threw", records |-> <<>>]
    ELSE [status |-> "returned", records |-> r.records]

getGroupedRowRenderMetadata(expandedMap, runs, mode, aggFn, data) ==
    IF mode = Tag \/ mode = Param
    THEN LET vals == [i \in 1..Len(runs) |->
                        IF mode = Tag THEN TagValue(runs[i], data) ELSE ParamValue(runs[i], data)]
         IN  Outcome(createRunsGroupedByValue(vals, runs, expandedMap, aggFn, mode, data))
    ELSE IF mode = Dataset
    THEN Outcome(createRunsGroupedByDataset(runs, expandedMap, aggFn, data))
    ELSE [status |-> "null", records |-> <<>>]

(***************************************************************************)
(* TimeSeriesAggregator.  A history entry is [step, value, timestamp].     *)
(***************************************************************************)
\* lodash compact on numbers: 0 and NaN are falsy and dropped; compact(undefined) is [].
IsTruthyNumber(x) == ~isNaN(x) /\ x # Num(0)
compact(nums) == SelectSeq(nums, IsTruthyNumber)

RECURSIVE MathMax(_)
\* Math.max(...nums): -Infinity for no arguments.
MathMax(nums) ==
    IF Len(nums) = 0 THEN NegInfinity
    ELSE MathMax2(MathMax(SubSeq(nums, 1, Len(nums) - 1)), nums[Len(nums)])

RECURSIVE MathMin(_)
\* Math.min(...nums): +Infinity for no arguments.
MathMin(nums) ==
    IF Len(nums) = 0 THEN Infinity
    ELSE MathMin2(MathMin(SubSeq(nums, 1, Len(nums) - 1)), nums[Len(nums)])

\* historyByStep[step]: the entries of that step in history order (<<>> stands for
\* undefined, which ?.map and compact turn into []).
historyByStep(hist, step) ==
    LET AtStep(e) == e.step = step
    IN  SelectSeq(hist, AtStep)

StepValues(hist, step) ==
    LET es == historyByStep(hist, step) IN compact([i \in 1..Len(es) |-> es[i].value])
StepTimestamps(hist, step) ==
    LET es == historyByStep(hist, step) IN compact([i \in 1..Len(es) |-> es[i].timestamp])

averageTimestampsPerStep(steps, hist) ==
    [i \in 1..Len(steps) |-> MathRound(average(StepTimestamps(hist, steps[i])))]

\* Faulty variant (sensitivity of the properties): the min series computed with Math.max and the max series with Math.min.
createAggregatedMetricHistorySwapped(steps, metricKey, hist) ==
    LET ts == averageTimestampsPerStep(steps, hist)
        Point(i, v) == [key |-> metricKey, step |-> steps[i], value |-> v, timestamp |-> ts[i]]
    IN  [min |-> [i \in 1..Len(steps) |-> Point(i, MathMax(StepValues(hist, steps[i])))],
         max |-> [i \in 1..Len(steps) |-> Point(i, MathMin(StepValues(hist, steps[i])))],
         average |-> [i \in 1..Len(steps) |-> Point(i, average(StepValues(hist, steps[i])))]]

createAggregatedMetricHistory(steps, metricKey, hist) ==
    LET ts == averageTimestampsPerStep(steps, hist)
        Point(i, v) == [key |-> metricKey, step |-> steps[i], value |-> v, timestamp |-> ts[i]]
    IN  [min |-> [i \in 1..Len(steps) |-> Point(i, MathMin(StepValues(hist, steps[i])))],
         max |-> [i \in 1..Len(steps) |-> Point(i, MathMax(StepValues(hist, steps[i])))],
         average |-> [i \in 1..Len(steps) |-> Point(i, average(StepValues(hist, steps[i])))]]

(***************************************************************************)
(* Explored inputs.                                                        *)
(***************************************************************************)
RECURSIVE SeqsUpTo(_, _)
\* All sequences over S of length at most n.
SeqsUpTo(S, n) ==
    IF n = 0 THEN {<<>>}
    ELSE LET shorter == SeqsUpTo(S, n - 1)
         IN  shorter \cup {Append(q, x) : q \in shorter, x \in S}

\* All functions from a subset of ids to BOOLEAN: the expand/collapse maps.
ExpandedMaps(ids) == UNION {[sub -> BOOLEAN] : sub \in SUBSET ids}

fieldK == <<"k">>
loss == <<"l", "o", "s", "s">>

\* Codec: grouping fields (the empty one is Dataset mode's) and persisted keys.
GroupByDataChoices ==
    {EmptyString, fieldK, <<"a", ".", "b">>, <<"K", "1">>, <<".", "x">>, Dataset}
TokenPieces == {Tag, Dataset, Min, Average, Dot, <<"X">>, fieldK}
PersistedKeys(n) == {Join(ps, EmptyString) : ps \in SeqsUpTo(TokenPieces, n)}

\* Aggregation: entity lists per run.
AggKeys == {<<"a">>, <<"b">>, constructor}
AggValues == {NumV(2), NumV(4), StrV(<<"x">>)}
AggEntities == {[key |-> key, value |-> v] : key \in AggKeys, v \in AggValues}

\* Grouping: the run at position i has the i-th identifier.
RunUuid(i) ==
    CASE i = 1 -> <<"c">>
      [] i = 2 -> <<"b", ".", "c">>
      [] OTHER -> <<"r", CHOOSE d \in Digits : DigitValue(d) = i % 10>>

GroupingValues == {Undefined, EmptyString, <<"a">>, <<"a", ".", "b">>, <<"1", "0">>, <<"2">>, constructor}
ExpandValues == {Undefined, EmptyString, <<"a">>, <<"b">>, constructor}

\* A run whose tag fieldK and param fieldK both carry v (no tag, no param when v is undefined).
ValueRunShape(v) ==
    [tags |-> IF v = Undefined THEN <<>> ELSE (fieldK :> v),
     params |-> IF v = Undefined THEN <<>> ELSE <<[key |-> fieldK, value |-> StrV(v)]>>,
     metrics |-> <<[key |-> loss, value |-> NumV(2)]>>,
     datasets |-> <<>>]

d1 == [name |-> <<"a">>, digest |-> <<"b">>]
d2 == [name |-> <<"a">>, digest |-> <<"c">>]
\* Two different datasets whose names and digests contain dots.
d3 == [name |-> <<"a", ".", "b">>, digest |-> <<"c">>]
d4 == [name |-> <<"a">>, digest |-> <<"b", ".", "c">>]
DatasetLists == {<<>>, <<d1>>, <<d2>>, <<d1, d1>>, <<d1, d2>>, <<d3>>, <<d4>>}
ExpandDatasetLists == {<<>>, <<d1>>, <<d2>>, <<d1, d2>>}

DatasetRunShape(ds, metricKey) ==
    [tags |-> (EXPERIMENT_PARENT_ID_TAG :> <<"c">>),
     params |-> <<>>,
     metrics |-> <<[key |-> metricKey, value |-> NumV(2)]>>,
     datasets |-> ds]

WithUuids(shapes) ==
    [i \in 1..Len(shapes) |->
        [runInfo |-> [run_uuid |-> RunUuid(i)],
         tags |-> shapes[i].tags,
         params |-> shapes[i].params,
         metrics |-> shapes[i].metrics,
         datasets |-> shapes[i].datasets]]

RunLists(shapes) == {WithUuids(q) : q \in SeqsUpTo(shapes, MaxRuns)}

\* The group identifiers the caller's map may mention: the remaining group's and
\* those of the given concrete values.
CandidateGroupIds(mode, groupValues) ==
    {createGroupId(mode, fieldK, Undefined)} \cup {createGroupId(mode, fieldK, v) : v \in groupValues}

\* History entries and requested steps.
HistorySteps == {1, 2}
HistoryValues == {-1, 0, 3}
HistoryTimestamps == {100, 201}
HistoryEntries ==
    {[step |-> st, value |-> Num(v), timestamp |-> Num(t)] :
        st \in HistorySteps, v \in HistoryValues, t \in HistoryTimestamps}
StepNumberChoices == {<<>>, <<1>>, <<1, 2>>, <<2, 1>>, <<3>>, <<1, 2, 3>>}

(***************************************************************************)
(* Initial states: one pending call with its arguments.                    *)
(***************************************************************************)
IdleCodec == cfgIn = NoArgs /\ groupByKey = Undefined /\ parsed = Pending
IdleAgg == valuesByRun = <<>> /\ aggregated = Pending
IdleGroup ==
    /\ runData = <<>> /\ groupsExpanded = <<>> /\ groupByMode = Undefined
    /\ groupByData = Undefined /\ rendered = Pending
IdleHist == stepNumbers = <<>> /\ history = <<>> /\ synthetic = Pending

InitCodec ==
    /\ \/ /\ pc = "createRunsGroupByKey"
          /\ cfgIn \in [mode : RunGroupingMode \cup {Undefined},
                        groupByData : GroupByDataChoices,
                        aggregateFunction : RunGroupingAggregateFunction]
          /\ groupByKey = Undefined
       \/ /\ pc = "parseRunsGroupByKey"
          /\ cfgIn = NoArgs
          /\ groupByKey \in PersistedKeys(MaxTokenPieces) \cup {Undefined}
    /\ parsed = Pending
    /\ aggregateFunction = Undefined
    /\ IdleAgg /\ IdleGroup /\ IdleHist

InitAgg ==
    /\ pc = "aggregateValues"
    /\ valuesByRun \in SeqsUpTo(SeqsUpTo(AggEntities, MaxEntities), MaxAggRuns)
    /\ aggregateFunction \in RunGroupingAggregateFunction
    /\ aggregated = Pending
    /\ IdleCodec /\ IdleGroup /\ IdleHist

InitGroup ==
    /\ pc = "getGroupedRowRenderMetadata"
    /\ groupByMode \in RunGroupingMode
    /\ groupByData = fieldK
    /\ aggregateFunction \in RunGroupingAggregateFunction
    /\ IF groupByMode = Dataset
       THEN runData \in RunLists({DatasetRunShape(ds, mk) : ds \in DatasetLists,
                                                           mk \in {loss, constructor}})
       ELSE runData \in RunLists({ValueRunShape(v) : v \in GroupingValues})
    /\ groupsExpanded \in ExpandedMaps(CandidateGroupIds(groupByMode,
                             IF groupByMode = Dataset THEN {DatasetIdentifier(d1)} ELSE {<<"a">>}))
    /\ rendered = Pending
    /\ IdleCodec /\ IdleAgg /\ IdleHist

InitExpand ==
    /\ pc = "getGroupedRowRenderMetadata"
    /\ groupByMode \in RunGroupingMode
    /\ groupByData = fieldK
    /\ aggregateFunction \in RunGroupingAggregateFunction
    /\ IF groupByMode = Dataset
       THEN runData \in RunLists({DatasetRunShape(ds, loss) : ds \in ExpandDatasetLists})
       ELSE runData \in RunLists({ValueRunShape(v) : v \in ExpandValues})
    /\ groupsExpanded \in ExpandedMaps(CandidateGroupIds(groupByMode,
                             IF groupByMode = Dataset
                             THEN {DatasetIdentifier(d1), DatasetIdentifier(d2)}
                             ELSE {<<"a">>, <<"b">>}))
    /\ rendered = Pending
    /\ IdleCodec /\ IdleAgg /\ IdleHist

InitHist ==
    /\ pc = "createAggregatedMetricHistory"
    /\ stepNumbers \in StepNumberChoices
    /\ history \in SeqsUpTo(HistoryEntries, MaxHistory)
    /\ synthetic = Pending
    /\ aggregateFunction = Undefined
    /\ IdleCodec /\ IdleAgg /\ IdleGroup

Init == InitCodec \/ InitAgg \/ InitGroup \/ InitExpand \/ InitHist

(***************************************************************************)
(* Actions: one per exported operation (aggregateValues is also called on  *)
(* its own, as the builder calls it).                                      *)
(***************************************************************************)
CreateRunsGroupByKey ==
    /\ pc = "createRunsGroupByKey"
    /\ groupByKey' = createRunsGroupByKey(cfgIn.mode, cfgIn.groupByData, cfgIn.aggregateFunction)
    /\ pc' = "parseRunsGroupByKey"
    /\ UNCHANGED <<cfgIn, parsed, aggregateFunction, aggVars, groupVars, histVars>>

ParseRunsGroupByKey ==
    /\ pc = "parseRunsGroupByKey"
    /\ parsed' = parseRunsGroupByKey(groupByKey)
    /\ pc' = "done"
    /\ UNCHANGED <<cfgIn, groupByKey, aggregateFunction, aggVars, groupVars, histVars>>

AggregateValues ==
    /\ pc = "aggregateValues"
    /\ aggregated' = aggregateValues(valuesByRun, aggregateFunction)
    /\ pc' = "done"
    /\ UNCHANGED <<valuesByRun, aggregateFunction, codecVars, groupVars, histVars>>

GetGroupedRowRenderMetadata ==
    /\ pc = "getGroupedRowRenderMetadata"
    /\ rendered' = getGroupedRowRenderMetadata(groupsExpanded, runData, groupByMode,
                                               aggregateFunction, groupByData)
    /\ pc' = "done"
    /\ UNCHANGED <<runData, groupsExpanded, groupByMode, groupByData, aggregateFunction,
                   codecVars, aggVars, histVars>>

CreateAggregatedMetricHistory ==
    /\ pc = "createAggregatedMetricHistory"
    /\ synthetic' = createAggregatedMetricHistory(stepNumbers, loss, history)
    /\ pc' = "done"
    /\ UNCHANGED <<stepNumbers, history, aggregateFunction, codecVars, aggVars, groupVars>>

NextCodec == CreateRunsGroupByKey \/ ParseRunsGroupByKey
Next ==
    \/ CreateRunsGroupByKey
    \/ ParseRunsGroupByKey
    \/ AggregateValues
    \/ GetGroupedRowRenderMetadata
    \/ CreateAggregatedMetricHistory

Spec == Init /\ [][Next]_vars
SpecCodec == InitCodec /\ [][NextCodec]_vars
SpecAgg == InitAgg /\ [][AggregateValues]_vars
SpecGroup == InitGroup /\ [][GetGroupedRowRenderMetadata]_vars
SpecExpand == InitExpand /\ [][GetGroupedRowRenderMetadata]_vars
SpecHist == InitHist /\ [][CreateAggregatedMetricHistory]_vars

(***************************************************************************)
(* Properties.                                                             *)
(***************************************************************************)
isRemainingRunsGroup(group) == group.value = RUN_GROUP_REMAINING_RUNS_SYMBOL

Returned == pc = "done" /\ rendered # Pending /\ rendered.status = "returned"
Recs == rendered.records
HeaderPositions == {p \in 1..Len(Recs) : Recs[p].isGroup}
RowPositions == {p \in 1..Len(Recs) : ~Recs[p].isGroup}
ConcretePositions == {p \in HeaderPositions : ~isRemainingRunsGroup(Recs[p])}
RemainingPositions == {p \in HeaderPositions : isRemainingRunsGroup(Recs[p])}
Occurrences(seq, x) == Cardinality({i \in 1..Len(seq) : seq[i] = x})
UuidOf(i) == runData[i].runInfo.run_uuid
InputUuids == {UuidOf(i) : i \in 1..Len(runData)}

\* C1: grouping by tag or param returns headers whose member lists partition the
\* input run list: every input run is in the runUuids of exactly one header, once,
\* and no header lists a run that is not in the input.
C1_HeadersPartitionRuns ==
    (pc = "done" /\ groupByMode \in {Tag, Param}) =>
        /\ rendered.status = "returned"
        /\ \A i \in 1..Len(runData) :
             /\ Cardinality({p \in HeaderPositions : Occurrences(Recs[p].runUuids, UuidOf(i)) > 0}) = 1
             /\ \A p \in HeaderPositions : Occurrences(Recs[p].runUuids, UuidOf(i)) <= 1
        /\ \A p \in HeaderPositions :
             \A j \in 1..Len(Recs[p].runUuids) : Recs[p].runUuids[j] \in InputUuids

\* The headers whose group value is the dataset ds.
GroupsOfDataset(ds) ==
    {p \in ConcretePositions : Recs[p].value = [t |-> "dataset", v |-> ds]}

\* C2: in a returned grouping by dataset, a run with dataset references is listed
\* exactly once in the group of each dataset (name, digest) it references and not in
\* the remaining group; a run without references is listed in the remaining group
\* and in no dataset group.
C2_DatasetMembership ==
    (Returned /\ groupByMode = Dataset) =>
        \A i \in 1..Len(runData) :
            IF Len(runData[i].datasets) > 0
            THEN /\ \A n \in 1..Len(runData[i].datasets) :
                      /\ Cardinality(GroupsOfDataset(runData[i].datasets[n])) = 1
                      /\ \A p \in GroupsOfDataset(runData[i].datasets[n]) :
                           Occurrences(Recs[p].runUuids, UuidOf(i)) = 1
                 /\ \A p \in RemainingPositions : Occurrences(Recs[p].runUuids, UuidOf(i)) = 0
            ELSE /\ \E p \in RemainingPositions : Occurrences(Recs[p].runUuids, UuidOf(i)) = 1
                 /\ \A p \in ConcretePositions : Occurrences(Recs[p].runUuids, UuidOf(i)) = 0

\* The header at p is followed by exactly its member rows, in member order.
FollowedByMemberRows(p) ==
    LET n == Len(Recs[p].runUuids)
    IN  /\ p + n <= Len(Recs)
        /\ \A j \in 1..n :
             /\ ~Recs[p + j].isGroup
             /\ Recs[p + j].runInfo.run_uuid = Recs[p].runUuids[j]
        /\ (p + n = Len(Recs) \/ Recs[p + n + 1].isGroup)
\* The header at p stands alone: no row follows it.
HeaderOnly(p) == p = Len(Recs) \/ Recs[p + 1].isGroup

\* C3: in every returned pass (all three modes), a concrete group is open and
\* followed by its member rows when groupsExpanded has no entry for its id or the
\* entry is true, and is a lone closed header when the entry is false; the remaining
\* group is open with its member rows only when its entry is true, and a lone closed
\* header when the entry is absent or false.
C3_ExpansionPolicy ==
    Returned =>
        /\ \A p \in ConcretePositions :
             LET id == Recs[p].groupId
             IN  IF id \in DOMAIN groupsExpanded /\ groupsExpanded[id] = FALSE
                 THEN ~Recs[p].expanderOpen /\ HeaderOnly(p)
                 ELSE Recs[p].expanderOpen /\ FollowedByMemberRows(p)
        /\ \A p \in RemainingPositions :
             LET id == Recs[p].groupId
             IN  IF id \in DOMAIN groupsExpanded /\ groupsExpanded[id] = TRUE
                 THEN Recs[p].expanderOpen /\ FollowedByMemberRows(p)
                 ELSE ~Recs[p].expanderOpen /\ HeaderOnly(p)

\* A pass that shows every case of C3: a collapsed concrete group (entry false), an
\* expanded one (no entry) with its rows, and either an expanded remaining group
\* (entry true) or a remaining group collapsed by default (no entry).
C3_Witness ==
    /\ Returned
    /\ \E p \in ConcretePositions :
         /\ Recs[p].groupId \in DOMAIN groupsExpanded
         /\ ~groupsExpanded[Recs[p].groupId]
         /\ ~Recs[p].expanderOpen
    /\ \E p \in ConcretePositions :
         /\ Recs[p].groupId \notin DOMAIN groupsExpanded
         /\ Recs[p].expanderOpen
         /\ p < Len(Recs) /\ ~Recs[p + 1].isGroup
    /\ \E p \in RemainingPositions :
         /\ Recs[p].groupId \notin DOMAIN groupsExpanded
         /\ ~Recs[p].expanderOpen
         /\ Len(Recs[p].runUuids) > 0

(***************************************************************************)
(* Aggregation: what the values recorded under a key amount to.            *)
(***************************************************************************)
EntityPlaces == {<<r, e>> : r \in 1..Len(valuesByRun), e \in 1..MaxEntities + 1}
Places == {pl \in EntityPlaces : pl[2] <= Len(valuesByRun[pl[1]])}
EntityAt(pl) == valuesByRun[pl[1]][pl[2]]
InputKeys == {EntityAt(pl).key : pl \in Places}
PlacesOfKey(key) == {pl \in Places : EntityAt(pl).key = key}

RECURSIVE SumOfPlaces(_)
SumOfPlaces(S) ==
    IF S = {} THEN Num(0)
    ELSE LET pl == CHOOSE x \in S : TRUE
         IN  Plus(Number(EntityAt(pl).value), SumOfPlaces(S \ {pl}))

\* The minimum, maximum or mean of all coerced values under key; NaN as soon as one
\* of them is NaN.
ExpectedAggregate(key, aggFn) ==
    LET nums == {Number(EntityAt(pl).value) : pl \in PlacesOfKey(key)}
    IN  IF NaN \in nums THEN NaN
        ELSE IF aggFn = Min THEN CHOOSE m \in nums : \A v \in nums : ~Less(v, m)
        ELSE IF aggFn = Max THEN CHOOSE m \in nums : \A v \in nums : ~Less(m, v)
        ELSE DivideByCount(SumOfPlaces(PlacesOfKey(key)), Cardinality(PlacesOfKey(key)))

\* C4: aggregateValues returns exactly one entry per key whose minimum, maximum or
\* mean (of all coerced values under the key) is a number, carrying that value, and
\* no entry for a key whose aggregate is NaN.
C4_AggregatePerKey ==
    (pc = "done" /\ aggregated # Pending) =>
        /\ ~aggregated.threw
        /\ \A i \in 1..Len(aggregated.entities) : aggregated.entities[i].key \in InputKeys
        /\ \A key \in InputKeys :
             LET hits == {i \in 1..Len(aggregated.entities) : aggregated.entities[i].key = key}
                 want == ExpectedAggregate(key, aggregateFunction)
             IN  IF isNaN(want) THEN hits = {}
                 ELSE /\ Cardinality(hits) = 1
                      /\ \A i \in hits : aggregated.entities[i].value = want

(***************************************************************************)
(* Codec.                                                                  *)
(***************************************************************************)
\* groupByData valid for the mode: a tag or parameter name, or empty for Dataset.
ValidGroupByData(mode, data) == IF mode = Dataset THEN data = EmptyString ELSE data # EmptyString

\* C5: decoding the encoding of a valid configuration gives the configuration back.
C5_RoundTrip ==
    (pc = "done" /\ cfgIn # NoArgs /\ cfgIn.mode \in RunGroupingMode
        /\ ValidGroupByData(cfgIn.mode, cfgIn.groupByData)) =>
        parsed = [mode |-> cfgIn.mode,
                  aggregateFunction |-> cfgIn.aggregateFunction,
                  groupByData |-> cfgIn.groupByData]

\* The token has at least two dots, a recognized mode before the first and a
\* recognized aggregate function between the first and the second.
WellFormedKey(token) ==
    /\ token # Undefined
    /\ \E p1 \in 1..Len(token) : \E p2 \in (p1 + 1)..Len(token) :
         /\ token[p1] = "." /\ token[p2] = "."
         /\ \A i \in 1..(p2 - 1) : i = p1 \/ token[i] # "."
         /\ SubSeq(token, 1, p1 - 1) \in RunGroupingMode
         /\ SubSeq(token, p1 + 1, p2 - 1) \in RunGroupingAggregateFunction

\* C8: parseRunsGroupByKey returns a configuration only for a token of the form
\* mode.aggregateFunction.groupByData with a recognized mode and aggregate function,
\* and null for every other token, the empty and the absent one included; an absent
\* mode encodes to the empty string, which decodes to null.
C8_TokenRejection ==
    (pc = "done" /\ parsed # Pending) =>
        /\ (parsed # Null => WellFormedKey(groupByKey))
        /\ (groupByKey \in {Undefined, EmptyString} => parsed = Null)
        /\ ((cfgIn # NoArgs /\ cfgIn.mode = Undefined) => groupByKey = EmptyString)

(***************************************************************************)
(* Metric history.                                                         *)
(***************************************************************************)
EntriesAt(step) == {i \in 1..Len(history) : history[i].step = step}

RECURSIVE SumOfField(_, _)
SumOfField(S, timestamps) ==
    IF S = {} THEN Num(0)
    ELSE LET i == CHOOSE x \in S : TRUE
         IN  Plus(IF timestamps THEN history[i].timestamp ELSE history[i].value,
                  SumOfField(S \ {i}, timestamps))

Series == <<synthetic.min, synthetic.max, synthetic.average>>

\* C6: each series has one point per requested step, in order, with the metric key
\* and the step; at a step with history entries the min, max and average points
\* carry the minimum, maximum and mean of the values of all entries of the step, and
\* the rounded mean of all their timestamps.
C6_StepAggregates ==
    (pc = "done" /\ synthetic # Pending) =>
        /\ \A n \in 1..3 :
             /\ Len(Series[n]) = Len(stepNumbers)
             /\ \A i \in 1..Len(stepNumbers) :
                  Series[n][i].key = loss /\ Series[n][i].step = stepNumbers[i]
        /\ \A i \in 1..Len(stepNumbers) :
             LET at == EntriesAt(stepNumbers[i])
                 vals == {history[j].value : j \in at}
                 stamp == MathRound(DivideByCount(SumOfField(at, TRUE), Cardinality(at)))
             IN  at # {} =>
                   /\ synthetic.min[i].value = CHOOSE m \in vals : \A v \in vals : ~Less(v, m)
                   /\ synthetic.max[i].value = CHOOSE m \in vals : \A v \in vals : ~Less(m, v)
                   /\ synthetic.average[i].value =
                          DivideByCount(SumOfField(at, FALSE), Cardinality(at))
                   /\ \A n \in 1..3 : Series[n][i].timestamp = stamp

GroupingValueOf(i) ==
    IF groupByMode = Tag THEN TagValue(runData[i], groupByData)
    ELSE ParamValue(runData[i], groupByData)

\* Positions of the runs that are the first to carry their (truthy) value.
FirstAppearances ==
    {i \in 1..Len(runData) :
        /\ TruthyString(GroupingValueOf(i))
        /\ \A j \in 1..(i - 1) : GroupingValueOf(j) # GroupingValueOf(i)}

Ascending(S, n) == LET In(i) == i \in S IN SelectSeq([i \in 1..n |-> i], In)

\* C9: in a returned grouping by tag or param, the concrete headers come in the
\* order in which their values first appear in the run list, each member list keeps
\* the input order of its runs, and the remaining group comes after all concrete
\* groups.
C9_FirstAppearanceOrder ==
    (Returned /\ groupByMode \in {Tag, Param}) =>
        LET firsts == Ascending(FirstAppearances, Len(runData))
            heads == Ascending(ConcretePositions, Len(Recs))
        IN  /\ Len(heads) = Len(firsts)
            /\ \A n \in 1..Len(heads) :
                 /\ Recs[heads[n]].value = [t |-> "str", v |-> GroupingValueOf(firsts[n])]
                 /\ LET members == Ascending({i \in 1..Len(runData) :
                                                 GroupingValueOf(i) = GroupingValueOf(firsts[n])},
                                             Len(runData))
                    IN  Recs[heads[n]].runUuids = [m \in 1..Len(members) |-> UuidOf(members[m])]
            /\ \A p \in RemainingPositions : \A q \in ConcretePositions : q < p

\* C10: in a returned pass over runs with pairwise distinct identifiers no two run
\* rows have the same rowUuid.
C10_UniqueRowUuid ==
    (Returned /\ \A i, j \in 1..Len(runData) : i # j => UuidOf(i) # UuidOf(j)) =>
        \A p, q \in RowPositions : p # q => Recs[p].rowUuid # Recs[q].rowUuid

====
